---- MODULE Spec2Model ----
(***************************************************************************)
(* python_cmr: the query object (cmr/queries.py) and its retrieval calls.  *)
(*                                                                         *)
(* One query object is modelled: its class (kind), its parameter store,    *)
(* options, output format and headers, and the retrieval call in progress  *)
(* on it (get, hits, get_all) with the locals of that call.  The HTTP      *)
(* server is the environment: every request is answered by any response of *)
(* the bounded set Responses.  A retrieval call advances by one request /  *)
(* response round trip per step; the code between two round trips is part  *)
(* of the step that receives the response.                                 *)
(*                                                                         *)
(* A list of result records is written as a sequence of runs: the run      *)
(* [lo |-> a, hi |-> b] stands for the records a, a+1, ..., b in that      *)
(* order, so a page of 2000 fresh records is one run.  Concatenating run   *)
(* sequences concatenates the lists they stand for.                        *)
(***************************************************************************)
EXTENDS Integers, Sequences, FiniteSets, TLC

\* ------------------------------------------------------------------ bounds

\* get's limits reach MaxPages * PageMax + 1 (and the hit counts likewise)
MaxPages == 2

\* requests one retrieval call may issue in the model (the page-number loop
\* of the code has no bound of its own against a server of short pages)
MaxRequests == 4

\* the most filters the parameter store holds when builder calls are explored
MaxFilters == 2

\* the most ranges temporal is let to collect
MaxRanges == 2

\* the most other query objects constructed beside the one observed
MaxQueries == 2

\* ------------------------------------------------------- program constants

\* the server's single-page maximum: the literal 2000 of Query.get and of
\* ToolServiceVariableBaseQuery.get
PageMax == 2000

\* Python's None: distinct from every string the program handles
None == "<None>"

Min(a, b) == IF a <= b THEN a ELSE b

\* ceil(a / b) for b > 0, a any integer
CeilDiv(a, b) == IF a <= 0 THEN -((-a) \div b) ELSE (a + b - 1) \div b

Max(a, b) == IF a >= b THEN a ELSE b

\* ------------------------------------------------------------ query kinds

Kinds == {"granule", "collection", "tool", "service", "variable"}

\* the classes that inherit Query.get (cursor protocol); the others inherit
\* ToolServiceVariableBaseQuery.get (page-number protocol)
CursorKinds == {"granule", "collection"}

PageKinds == {"tool", "service", "variable"}

\* the route given to Query.__init__ by each class
Route(k) ==
    CASE k = "granule" -> "granules"
      [] k = "collection" -> "collections"
      [] k = "tool" -> "tools"
      [] k = "service" -> "services"
      [] k = "variable" -> "variables"

VARIABLES
    kind,          \* the class of the query object
    valid_formats_regex, \* Query._valid_formats_regex, the list all classes share
    params,        \* self.params: ordered mapping, a sequence of [key, val]
    options,       \* self.options: ordered mapping, a sequence of [key, val]
    format,        \* self._format
    headers,       \* self.headers: a function from header names to values
    op,            \* the retrieval method the caller invoked, "none" when idle
    pc,            \* where the call in progress stands
    limit,         \* get's argument
    url,           \* get's / hits' local url
    results,       \* get's local results
    get_headers,   \* Query.get's local headers (the dict sent with requests)
    n_results,     \* Query.get's local n_results
    page_size,     \* get's local page_size
    page,          \* ToolServiceVariableBaseQuery.get's local page
    requests,      \* the requests sent by the call in progress, in order
    responses,     \* the responses received by the call in progress, in order
    outcome,       \* "none", "returned" or "raised"
    retval,        \* the value returned to the caller (None when none)
    error,         \* the class of the exception raised (None when none)
    calls          \* the frames of the get invocations that run concurrently

qvars == <<kind, valid_formats_regex, params, options, format, headers>>

locals == <<limit, url, results, get_headers, n_results, page_size, page>>

cvars == <<op, pc, requests, responses, outcome, retval, error, calls>>

vars == <<kind, valid_formats_regex, params, options, format, headers, op, pc,
          limit, url, results, get_headers, n_results, page_size, page, requests,
          responses, outcome, retval, error, calls>>

\* ------------------------------------------------------- ordered mappings

HasKey(m, k) == \E i \in 1..Len(m) : m[i].key = k

\* m[k] = v on a Python dict: an existing key keeps its place
SetKey(m, k, v) ==
    IF HasKey(m, k)
    THEN [i \in 1..Len(m) |-> IF m[i].key = k THEN [key |-> k, val |-> v] ELSE m[i]]
    ELSE Append(m, [key |-> k, val |-> v])

\* m[k] of a Python dict that holds k
GetKey(m, k) == m[CHOOSE i \in 1..Len(m) : m[i].key = k].val

\* del m[k]
DelKey(m, k) == SelectSeq(m, LAMBDA e : e.key # k)

\* ---------------------------------------------------------- run sequences

\* the number of list elements one item of a result sequence stands for: a
\* run [lo, hi] of records, or one raw response body [text]
Size(item) == IF "lo" \in DOMAIN item THEN item.hi - item.lo + 1 ELSE 1

\* len() of the list a result sequence stands for
RECURSIVE Count(_)
Count(rs) ==
    IF rs = <<>> THEN 0 ELSE Size(Head(rs)) + Count(Tail(rs))

\* the records lo .. lo + n - 1 as a list (empty when n <= 0)
Fresh(lo, n) == IF n <= 0 THEN <<>> ELSE <<[lo |-> lo, hi |-> lo + n - 1]>>

\* the set of records of a list
Records(rs) == UNION {rs[i].lo..rs[i].hi : i \in 1..Len(rs)}

\* no record occurs twice in the list
Distinct(rs) == Count(rs) = Cardinality(Records(rs))

\* ------------------------------------------------------- the query object

CMR_OPS == "https://cmr.earthdata.nasa.gov/search/"

\* the arguments the builder operations are called with
TokenArgs == {"", "tkn"}

\* format tokens, a character at a time
FormatArgs == {<<>>, <<"j", "s", "o", "n">>, <<"x", "m", "l">>, <<"i", "n", "v", "a", "l", "i", "d">>}

ShortNameArgs == {"", "MOD02QKM"}

\* coordinates are written in tenths of a degree: 151 is 15.1
PointArgs == {<<100, 151>>}

\* Query._valid_formats_regex as the class statement leaves it
BaseFormats == <<"json", "xml", "echo10", "iso", "iso19115", "csv", "atom", "kml", "native">>

\* what the constructor of each class appends to the shared list
FormatsExtension(k) ==
    IF k = "granule" THEN <<>>
    ELSE <<"dif", "dif10", "opendata", "umm_json", "umm_json_v[0-9]_[0-9]">>

\* a pattern of literal characters: each position takes that character
Lit(cs) == [i \in 1..Len(cs) |-> {cs[i]}]

\* [0-9]
Digit == {"0", "1", "2", "3", "4", "5", "6", "7", "8", "9"}

\* the compiled pattern: the set of characters each position takes
Compile(pattern) ==
    CASE pattern = "json" -> Lit(<<"j", "s", "o", "n">>)
      [] pattern = "xml" -> Lit(<<"x", "m", "l">>)
      [] pattern = "echo10" -> Lit(<<"e", "c", "h", "o", "1", "0">>)
      [] pattern = "iso" -> Lit(<<"i", "s", "o">>)
      [] pattern = "iso19115" -> Lit(<<"i", "s", "o", "1", "9", "1", "1", "5">>)
      [] pattern = "csv" -> Lit(<<"c", "s", "v">>)
      [] pattern = "atom" -> Lit(<<"a", "t", "o", "m">>)
      [] pattern = "kml" -> Lit(<<"k", "m", "l">>)
      [] pattern = "native" -> Lit(<<"n", "a", "t", "i", "v", "e">>)
      [] pattern = "dif" -> Lit(<<"d", "i", "f">>)
      [] pattern = "dif10" -> Lit(<<"d", "i", "f", "1", "0">>)
      [] pattern = "opendata" -> Lit(<<"o", "p", "e", "n", "d", "a", "t", "a">>)
      [] pattern = "umm_json" -> Lit(<<"u", "m", "m", "_", "j", "s", "o", "n">>)
      [] pattern = "umm_json_v[0-9]_[0-9]" ->
            Lit(<<"u", "m", "m", "_", "j", "s", "o", "n", "_", "v">>) \o <<Digit>> \o Lit(<<"_">>) \o <<Digit>>

\* re.search(pattern, token): the pattern matches somewhere in the token
Search(pattern, token) ==
    \E i \in 1..(Len(token) - Len(Compile(pattern)) + 1) :
        \A j \in 1..Len(Compile(pattern)) : token[i + j - 1] \in Compile(pattern)[j]

\* the get invocations that overlap on one query object
CallIds == {1, 2}

\* the frame of an invocation that has not started: the locals of Query.get,
\* and the search-after tokens it sent and received, request by request
IdleFrame ==
    [pc |-> "idle", limit |-> 0, headers |-> <<>>, n_results |-> 0,
     results |-> <<>>, sent |-> <<>>, received |-> <<>>, retval |-> <<>>]

\* Query.__init__ followed by the subclass's __init__, with the default mode
Init ==
    /\ kind \in Kinds
    /\ valid_formats_regex = BaseFormats \o FormatsExtension(kind)
    /\ params = <<>>
    /\ options = <<>>
    /\ format = "json"
    /\ headers = <<>>
    /\ op = "none"
    /\ pc = "idle"
    /\ limit = 0
    /\ url = None
    /\ results = <<>>
    /\ get_headers = <<>>
    /\ n_results = 0
    /\ page_size = 0
    /\ page = 0
    /\ requests = <<>>
    /\ responses = <<>>
    /\ outcome = "none"
    /\ retval = None
    /\ error = None
    /\ calls = [i \in CallIds |-> IdleFrame]

\* Query.token: a falsy token changes nothing, any other replaces the map
token(t) ==
    /\ pc = "idle"
    /\ headers' = IF t = "" THEN headers ELSE [Authorization |-> t]
    /\ UNCHANGED <<kind, valid_formats_regex, params, options, format, locals, cvars>>

\* Query.bearer_token
bearer_token(t) ==
    /\ pc = "idle"
    /\ headers' = IF t = "" THEN headers ELSE [Authorization |-> "Bearer " \o t]
    /\ UNCHANGED <<kind, valid_formats_regex, params, options, format, locals, cvars>>

\* GranuleCollectionBaseQuery.short_name
short_name(name) ==
    /\ pc = "idle"
    /\ kind \in CursorKinds
    /\ params' = IF name = "" THEN params
                 ELSE SetKey(params, "short_name", [type |-> "str", val |-> name])
    /\ UNCHANGED <<kind, valid_formats_regex, options, format, headers, locals, cvars>>

\* str(float(x)) for x given in tenths: 100 is "10.0", -5 is "-0.5"
PyFloatStr(t) ==
    LET a == IF t < 0 THEN 0 - t ELSE t
    IN (IF t < 0 THEN "-" ELSE "") \o ToString(a \div 10) \o "." \o ToString(a % 10)

\* sep.join(strings)
RECURSIVE JoinWith(_, _)
JoinWith(ss, sep) ==
    IF ss = <<>> THEN ""
    ELSE IF Len(ss) = 1 THEN ss[1]
    ELSE ss[1] \o sep \o JoinWith(Tail(ss), sep)

\* the f-string of point: "{lon},{lat}" of the two floats
PointString(lon, lat) == PyFloatStr(lon) \o "," \o PyFloatStr(lat)

\* self.params['point'] = f"{lon},{lat}"
PointStore(ps, lon, lat) ==
    SetKey(ps, "point", [type |-> "str", val |-> PointString(lon, lat)])

\* _valid_state of the query's class
ValidState(k, ps) ==
    IF k = "granule"
    THEN ~ ( /\ \E key \in {"point", "polygon", "bounding_box", "line"} : HasKey(ps, key)
             /\ ~ \E key \in {"short_name", "entry_title"} : HasKey(ps, key) )
    ELSE TRUE

\* "&".join(strings)
RECURSIVE Join(_)
Join(ss) ==
    IF ss = <<>> THEN ""
    ELSE IF Len(ss) = 1 THEN ss[1]
    ELSE ss[1] \o "&" \o Join(Tail(ss))

PyBoolStr(b) == IF b THEN "True" ELSE "False"

\* str(val).lower() of a bool
LowerBool(b) == IF b THEN "true" ELSE "false"

\* isinstance(val, bool) of an option value, which is kept as the Python
\* literal it was given as ("True", "False", or something else)
IsBoolLiteral(val) == val \in {"True", "False"}

\* the formatted_params entries of one parameter
FormatParam(p) ==
    CASE p.val.type = "list" ->
            [i \in 1..Len(p.val.val) |-> p.key \o "[]=" \o p.val.val[i]]
      [] p.val.type = "bool" -> <<p.key \o "=" \o LowerBool(p.val.val)>>
      [] OTHER -> <<p.key \o "=" \o p.val.val>>

RECURSIVE FormattedParams(_)
FormattedParams(ps) ==
    IF ps = <<>> THEN <<>> ELSE FormatParam(Head(ps)) \o FormattedParams(Tail(ps))

\* the formatted_options entries of one parameter's options (an ordered
\* mapping from option key to value)
RECURSIVE FormatOption(_, _)
FormatOption(param_key, os) ==
    IF os = <<>> THEN <<>>
    ELSE <<"options[" \o param_key \o "][" \o Head(os).key \o "]="
             \o LowerBool(Head(os).val = "True")>> \o FormatOption(param_key, Tail(os))

RECURSIVE FormattedOptions(_)
FormattedOptions(os) ==
    IF os = <<>> THEN <<>>
    ELSE FormatOption(Head(os).key, Head(os).val) \o FormattedOptions(Tail(os))

BadOptionNever(os) == FALSE

\* some option value is not a bool: _build_url raises TypeError
BadOption(os) ==
    \E i \in 1..Len(os) : \E j \in 1..Len(os[i].val) : ~IsBoolLiteral(os[i].val[j].val)

\* the exception _build_url raises in this state, None when it returns
BuildUrlError(k, ps, os) ==
    IF ~ValidState(k, ps) THEN "RuntimeError"
    ELSE IF BadOption(os) THEN "TypeError"
    ELSE None

\* the string _build_url returns; rstrip('&') removes the separators that
\* an empty params or options string leaves at the end
BuildUrl(k, ps, os, f) ==
    LET params_as_string == Join(FormattedParams(ps))
        options_as_string == Join(FormattedOptions(os))
        head == CMR_OPS \o Route(k) \o "." \o f \o "?"
    IN IF options_as_string # "" THEN head \o params_as_string \o "&" \o options_as_string
       ELSE head \o params_as_string

\* ------------------------------------------------------------- the server

\* the limits get is called with
Limits ==
    {-1, 0, 1, 2, 3, PageMax + 1000} \cup {k * PageMax + d : k \in 1..MaxPages, d \in {0, 1}}

\* the hit counts the server reports
HitCounts == {l \in Limits : l >= 0}

\* the values of a cmr-search-after response header (None: no such header)
SearchAfters == {None, "", "sa1", "sa2"}

\* a short page that repeats records 2 and 1 whenever it is served
ShortPage == <<[lo |-> 2, hi |-> 2], [lo |-> 1, hi |-> 1]>>

\* the raw bodies of non-JSON responses
Bodies == {"bodyA", "bodyB"}

\* the entries all responses of a call have carried so far
RECURSIVE Served(_)
Served(resps) ==
    IF resps = <<>> THEN 0 ELSE Count(Head(resps).entries) + Served(Tail(resps))

ErrorResponse ==
    [ok |-> FALSE, entries |-> <<>>, text |-> "", search_after |-> None, hits |-> None]

\* the responses to a page request asking for size records in format f:
\* a non-2xx response, or a 2xx response whose body holds, for JSON, size
\* records never served before in this call, no record, or the short page,
\* and for another format some raw body
PageResponses(size, f, resps, afters) ==
    {ErrorResponse} \cup
    { [ok |-> TRUE, entries |-> e, text |-> t, search_after |-> sa, hits |-> None] :
        e \in IF f = "json" THEN {Fresh(3 + Served(resps), size), <<>>, ShortPage}
              ELSE {<<>>},
        t \in IF f = "json" THEN {""} ELSE Bodies,
        sa \in afters }

\* the responses to a count probe: the CMR-Hits header is a decimal string
HitsResponses ==
    {ErrorResponse} \cup
    { [ok |-> TRUE, entries |-> <<>>, text |-> "", search_after |-> None,
       hits |-> ToString(h)] : h \in HitCounts }

\* int(s) for the decimal strings of the CMR-Hits header
PyInt(s) == CHOOSE n \in HitCounts : ToString(n) = s

\* ------------------------------------------------------- retrieval calls

\* a variant that lets every status pass
RaisesNever(resp) == FALSE

\* response.raise_for_status() raises HTTPError
RaisesForStatus(resp) == ~resp.ok

\* a variant that forgets what was already requested
PageSizeOfLimit(l, n) == Min(l, PageMax)

\* Query.get: page_size = min(limit - n_results, 2000)
PageSize(l, n) == Min(l - n, PageMax)

\* what one response adds to results: the entries of the JSON envelope, or
\* the raw body as one element
Latest(resp, f) == IF f = "json" THEN resp.entries ELSE <<[text |-> resp.text]>>

\* a variant that puts the new page in front
ExtendInFront(rs, latest) == latest \o rs

\* results.extend(latest)
Extend(rs, latest) == rs \o latest

\* Query.get: a truthy cmr-search-after value is stored in the local headers
NextHeaders(hs, sa) ==
    IF sa # None /\ sa # "" THEN ("cmr-search-after" :> sa) @@ hs ELSE hs

\* a variant that goes on for as long as the server sends a token
MoreResultsWhileToken(n, l, sa) == sa # None

\* Query.get: more_results = n_results < limit and cmr_search_after is not None
MoreResults(n, l, sa) == n < l /\ sa # None

\* a variant where the local name is an alias of self.headers
SelfHeadersAliased(self_headers, local_headers) == local_headers

\* Query.get works on dict(self.headers or {}): writing the local dict
\* leaves self.headers as it is
SelfHeadersAfter(self_headers, local_headers) == self_headers

\* ToolServiceVariableBaseQuery.get: page_size = min(limit, 2000)
FixedPageSize(l) == Min(l, PageMax)

\* a variant whose loop test is off by one
PageLoopContinuesAtLimit(rs, l) == Count(rs) <= l

\* ToolServiceVariableBaseQuery.get: while len(results) < limit
PageLoopContinues(rs, l) == Count(rs) < l

\* a variant that never advances the page
NextPageStuck(p) == p

\* ToolServiceVariableBaseQuery.get: page += 1
NextPage(p) == p + 1

\* a variant that calls get() with its default limit
GetAllLimitDefault(h) == PageMax

\* get_all: return self.get(self.hits())
GetAllLimit(h) == h

\* the call ends: its frame is dropped (limit, the argument, stays on
\* record until the caller resumes)
Finish(how, value, exc) ==
    /\ pc' = "done"
    /\ outcome' = how
    /\ retval' = value
    /\ error' = exc
    /\ url' = None
    /\ results' = <<>>
    /\ get_headers' = <<>>
    /\ n_results' = 0
    /\ page_size' = 0
    /\ page' = 0

\* a builder call ends: it returns the query itself, or raises exc; ps and
\* os are params and options as the call leaves them
Built(name, exc, ps, os) ==
    /\ pc = "idle"
    /\ op' = name
    /\ params' = ps
    /\ options' = os
    /\ Finish(IF exc = None THEN "returned" ELSE "raised",
              IF exc = None THEN "self" ELSE None, exc)
    /\ UNCHANGED <<kind, valid_formats_regex, format, headers, limit, requests, responses, calls>>

\* a coordinate is a number of tenths; BadValue stands for an argument
\* that float() cannot convert, such as 'invalid'
BadValue == 0 - 99999

\* float(x)
FloatError(x) == IF x = BadValue THEN "ValueError" ELSE None

\* lon = float(lon); lat = float(lat)
PointError(lon, lat) ==
    IF FloatError(lon) # None THEN FloatError(lon) ELSE FloatError(lat)

\* GranuleCollectionBaseQuery.point
point(lon, lat) ==
    /\ kind \in CursorKinds
    /\ Built("point", PointError(lon, lat),
             IF PointError(lon, lat) # None THEN params
             ELSE PointStore(params, lon, lat),
             options)

\* get(l) up to its first request: Query.get for the cursor classes,
\* ToolServiceVariableBaseQuery.get for the others
BeginGet(l) ==
    /\ limit' = l
    /\ IF BuildUrlError(kind, params, options) # None
       THEN Finish("raised", None, BuildUrlError(kind, params, options))
       ELSE IF kind \in CursorKinds
       THEN /\ pc' = "get"
            /\ url' = BuildUrl(kind, params, options, format)
            /\ results' = <<>>
            /\ get_headers' = headers
            /\ n_results' = 0
            /\ UNCHANGED <<page_size, page, outcome, retval, error>>
       ELSE IF PageLoopContinues(<<>>, l)
       THEN /\ pc' = "page_get"
            /\ page_size' = FixedPageSize(l)
            /\ url' = BuildUrl(kind, params, options, format)
            /\ results' = <<>>
            /\ page' = 1
            /\ UNCHANGED <<get_headers, n_results, outcome, retval, error>>
       ELSE Finish("returned", <<>>, None)

\* the caller invokes get(l)
get(l) ==
    /\ pc = "idle"
    /\ op' = "get"
    /\ BeginGet(l)
    /\ UNCHANGED <<qvars, requests, responses, calls>>

\* one iteration of Query.get's loop, the server answering resp
GetIteration(resp) ==
    LET size == PageSize(limit, n_results)
        n == n_results + size
        rs == Extend(results, Latest(resp, format))
        hs == NextHeaders(get_headers, resp.search_after)
    IN /\ requests' = Append(requests, [url |-> url, headers |-> get_headers,
                                        page_size |-> size, page_num |-> None])
       /\ responses' = Append(responses, resp)
       /\ IF RaisesForStatus(resp)
          THEN /\ Finish("raised", None, "HTTPError")
               /\ UNCHANGED headers
          ELSE /\ headers' = SelfHeadersAfter(headers, hs)
               /\ IF MoreResults(n, limit, resp.search_after)
                  THEN /\ n_results' = n
                       /\ results' = rs
                       /\ get_headers' = hs
                       /\ page_size' = size
                       /\ UNCHANGED <<pc, url, page, outcome, retval, error>>
                  ELSE Finish("returned", rs, None)
       /\ UNCHANGED <<kind, valid_formats_regex, params, options, format, op, limit, calls>>

GetPage ==
    /\ pc = "get"
    /\ Len(requests) < MaxRequests
    /\ \E resp \in PageResponses(PageSize(limit, n_results), format, responses,
                                 SearchAfters) :
          GetIteration(resp)

\* one iteration of ToolServiceVariableBaseQuery.get's loop
PageGetIteration(resp) ==
    LET latest == Latest(resp, format)
        rs == Extend(results, latest)
    IN /\ requests' = Append(requests, [url |-> url, headers |-> <<>>,
                                        page_size |-> page_size, page_num |-> page])
       /\ responses' = Append(responses, resp)
       /\ IF RaisesForStatus(resp)
          THEN Finish("raised", None, "HTTPError")
          ELSE IF Count(latest) = 0
          THEN Finish("returned", results, None)
          ELSE IF PageLoopContinues(rs, limit)
          THEN /\ results' = rs
               /\ page' = NextPage(page)
               /\ UNCHANGED <<pc, url, get_headers, n_results, page_size,
                              outcome, retval, error>>
          ELSE Finish("returned", rs, None)
       /\ UNCHANGED <<qvars, op, limit, calls>>

PageGetPage ==
    /\ pc = "page_get"
    /\ Len(requests) < MaxRequests
    /\ \E resp \in PageResponses(page_size, format, responses, {None}) :
          PageGetIteration(resp)

\* hits() / get_all() up to the count probe's request
BeginHits ==
    /\ UNCHANGED limit
    /\ IF BuildUrlError(kind, params, options) # None
       THEN Finish("raised", None, BuildUrlError(kind, params, options))
       ELSE /\ pc' = "hits"
            /\ url' = BuildUrl(kind, params, options, format)
            /\ UNCHANGED <<results, get_headers, n_results, page_size, page,
                           outcome, retval, error>>

\* the caller invokes hits()
hits ==
    /\ pc = "idle"
    /\ op' = "hits"
    /\ BeginHits
    /\ UNCHANGED <<qvars, requests, responses, calls>>

\* the caller invokes get_all(), which starts with hits()
get_all ==
    /\ pc = "idle"
    /\ op' = "get_all"
    /\ BeginHits
    /\ UNCHANGED <<qvars, requests, responses, calls>>

HitsPageSizeDefault == PageMax

\* the page size the count probe asks for: params={"page_size": 0}
HitsPageSize == 0

\* the count probe's round trip; get_all goes on with get(hits())
HitsRoundTrip(resp) ==
    /\ requests' = Append(requests, [url |-> url, headers |-> headers,
                                     page_size |-> HitsPageSize,
                                     page_num |-> None])
    /\ responses' = Append(responses, resp)
    /\ IF RaisesForStatus(resp)
       THEN Finish("raised", None, "HTTPError") /\ UNCHANGED limit
       ELSE IF op = "hits"
       THEN Finish("returned", PyInt(resp.hits), None) /\ UNCHANGED limit
       ELSE BeginGet(GetAllLimit(PyInt(resp.hits)))
    /\ UNCHANGED <<qvars, op, calls>>

HitsProbe ==
    /\ pc = "hits"
    /\ \E resp \in HitsResponses : HitsRoundTrip(resp)

\* the exception of format(output_format): no pattern of the shared list
\* is found in the token
FormatError(regex, output_format) ==
    IF \E i \in 1..Len(regex) : Search(regex[i], output_format)
    THEN None ELSE "ValueError"

\* Query.format: an empty token stands for json
set_format(output_format) ==
    LET f == IF output_format = <<>> THEN <<"j", "s", "o", "n">> ELSE output_format
    IN /\ pc = "idle"
       /\ op' = "format"
       /\ format' = IF FormatError(valid_formats_regex, f) = None
                    THEN JoinWith(f, "") ELSE format
       /\ Finish(IF FormatError(valid_formats_regex, f) = None
                 THEN "returned" ELSE "raised",
                 IF FormatError(valid_formats_regex, f) = None THEN "self" ELSE None,
                 FormatError(valid_formats_regex, f))
       /\ UNCHANGED <<kind, valid_formats_regex, params, options, headers, limit,
                      requests, responses, calls>>

\* the page sizes a caller passes to results(page_size=...)
ResultsArgs == {1000, PageMax}

\* query.results(page_size): Query and its subclasses define get, hits and
\* get_all only, so the attribute lookup fails before anything is sent
call_results(size) ==
    /\ pc = "idle"
    /\ op' = "results"
    /\ limit' = 0
    /\ Finish("raised", None, "AttributeError")
    /\ UNCHANGED <<qvars, requests, responses, calls>>

\* the caller takes the result (or the exception) of the finished call
CallerResumes ==
    /\ pc = "done"
    /\ pc' = "idle"
    /\ op' = "none"
    /\ requests' = <<>>
    /\ responses' = <<>>
    /\ outcome' = "none"
    /\ retval' = None
    /\ error' = None
    /\ limit' = 0
    /\ UNCHANGED <<qvars, url, results, get_headers, n_results, page_size, page, calls>>

Next ==
    \/ \E t \in TokenArgs : token(t)
    \/ \E t \in TokenArgs : bearer_token(t)
    \/ \E f \in FormatArgs : set_format(f)
    \/ \E n \in ShortNameArgs : short_name(n)
    \/ \E c \in PointArgs : point(c[1], c[2])
    \/ \E l \in Limits : get(l)
    \/ GetPage
    \/ PageGetPage
    \/ hits
    \/ get_all
    \/ HitsProbe
    \/ \E size \in ResultsArgs : call_results(size)
    \/ CallerResumes

Spec == Init /\ [][Next]_vars

\* ---------------------------------------------------------- builder calls

\* the arguments the spatial and collection filters are called with
PointCalls == PointArgs \cup {<<204, 102>>}

CircleArgs == {<<1, 2, 3>>}

PolygonArgs ==
    { <<>>,
      << <<10, 10>>, <<20, 10>>, <<10, 10>> >>,
      << <<10, 10>>, <<20, 10>>, <<20, 20>>, <<10, 10>> >>,
      << <<10, 10>>, <<20, 10>>, <<20, 20>>, <<10, 20>> >> }

BoxArgs == {<<10, 10, 20, 20>>}

LineArgs == { <<>>, << <<10, 10>> >>, << <<10, 11>>, <<20, 20>> >> }

\* entry titles, a character at a time
EntryTitleArgs == {<<"M", "O", "D">>, <<"a", " ", "b">>}

\* GranuleCollectionBaseQuery.circle: f"{lon},{lat},{dist}" of the
\* arguments as given
circle(lon, lat, dist) ==
    /\ kind \in CursorKinds
    /\ Built("circle", None,
             SetKey(params, "circle",
                    [type |-> "str",
                     val |-> ToString(lon) \o "," \o ToString(lat) \o ","
                             \o ToString(dist)]),
             options)

\* as_floats turned into strings: lon and lat of every pair, in order
RECURSIVE AsStrs(_)
AsStrs(coordinates) ==
    IF coordinates = <<>> THEN <<>>
    ELSE <<PyFloatStr(coordinates[1][1]), PyFloatStr(coordinates[1][2])>>
         \o AsStrs(Tail(coordinates))

\* polygon: nothing for an empty list; at least 4 pairs, the last equal to
\* the first
PolygonError(coordinates) ==
    IF coordinates = <<>> THEN None
    ELSE IF Len(coordinates) < 4 THEN "ValueError"
    ELSE IF coordinates[1] # coordinates[Len(coordinates)] THEN "ValueError"
    ELSE None

\* GranuleCollectionBaseQuery.polygon
polygon(coordinates) ==
    /\ kind \in CursorKinds
    /\ Built("polygon", PolygonError(coordinates),
             IF coordinates = <<>> \/ PolygonError(coordinates) # None
             THEN params
             ELSE SetKey(params, "polygon",
                         [type |-> "str",
                          val |-> JoinWith(AsStrs(coordinates), ",")]),
             options)

\* the four float() conversions of bounding_box, in the order of the f-string
BoxError(box) ==
    IF \E i \in 1..4 : FloatError(box[i]) # None THEN "ValueError" ELSE None

\* GranuleCollectionBaseQuery.bounding_box
bounding_box(box) ==
    /\ kind \in CursorKinds
    /\ Built("bounding_box", BoxError(box),
             IF BoxError(box) # None THEN params
             ELSE SetKey(params, "bounding_box",
                         [type |-> "str",
                          val |-> JoinWith(<<PyFloatStr(box[1]), PyFloatStr(box[2]),
                                             PyFloatStr(box[3]), PyFloatStr(box[4])>>,
                                           ",")]),
             options)

\* line: nothing for an empty list; at least 2 pairs
LineError(coordinates) ==
    IF coordinates = <<>> THEN None
    ELSE IF Len(coordinates) < 2 THEN "ValueError"
    ELSE None

\* GranuleCollectionBaseQuery.line
line(coordinates) ==
    /\ kind \in CursorKinds
    /\ Built("line", LineError(coordinates),
             IF coordinates = <<>> \/ LineError(coordinates) # None
             THEN params
             ELSE SetKey(params, "line",
                         [type |-> "str",
                          val |-> JoinWith(AsStrs(coordinates), ",")]),
             options)

\* urllib.parse.quote of one character: letters, digits and _.-~/ stay,
\* anything else becomes its %XX escape
QuoteChar(c) ==
    CASE c = " " -> "%20"
      [] c = "&" -> "%26"
      [] c = "," -> "%2C"
      [] OTHER -> c

\* quote(entry_title)
RECURSIVE Quote(_)
Quote(cs) == IF cs = <<>> THEN "" ELSE QuoteChar(Head(cs)) \o Quote(Tail(cs))

\* GranuleCollectionBaseQuery.entry_title
entry_title(title) ==
    /\ kind \in CursorKinds
    /\ Built("entry_title", None,
             SetKey(params, "entry_title", [type |-> "str", val |-> Quote(title)]),
             options)

\* the other headers a caller puts into the public headers mapping
HeaderArgs == {<<"foo", "bar">>}

\* query.headers[name] = value, by the caller
set_header(name, value) ==
    /\ pc = "idle"
    /\ headers' = (name :> value) @@ headers
    /\ UNCHANGED <<kind, valid_formats_regex, params, options, format, locals, cvars>>

\* the filter named key is in the store, or the store has room for it
Room(key) == HasKey(params, key) \/ Len(params) < MaxFilters

\* spatial and collection filters, authorization, and the count probe
SpatialNext ==
    \/ \E c \in PointCalls : Room("point") /\ point(c[1], c[2])
    \/ \E c \in CircleArgs : Room("circle") /\ circle(c[1], c[2], c[3])
    \/ \E cs \in PolygonArgs : Room("polygon") /\ polygon(cs)
    \/ \E b \in BoxArgs : Room("bounding_box") /\ bounding_box(b)
    \/ \E cs \in LineArgs : Room("line") /\ line(cs)
    \/ \E n \in ShortNameArgs : Room("short_name") /\ short_name(n)
    \/ \E t \in EntryTitleArgs : Room("entry_title") /\ entry_title(t)
    \/ \E t \in TokenArgs : token(t)
    \/ \E t \in TokenArgs : bearer_token(t)
    \/ \E h \in HeaderArgs : set_header(h[1], h[2])
    \/ hits
    \/ HitsProbe
    \/ CallerResumes

SpatialSpec == Init /\ [][SpatialNext]_vars

\* the arguments of the two flag setters, as Python writes them
FlagArgs == {"True", "False", "'Invalid Type'"}

\* isinstance(x, bool)
IsBool(x) == x \in {"True", "False"}

\* the flag setters' check of their argument
FlagError(x) == IF IsBool(x) THEN None ELSE "TypeError"

OnlineOnlyStoreKeepingOther(ps, x) ==
    IF FlagError(x) # None THEN ps
    ELSE SetKey(ps, "online_only", [type |-> "bool", val |-> x = "True"])

\* online_only: the inverse flag is removed, then the flag is set
OnlineOnlyStore(ps, x) ==
    IF FlagError(x) # None THEN ps
    ELSE SetKey(DelKey(ps, "downloadable"), "online_only",
                [type |-> "bool", val |-> x = "True"])

DownloadableStoreUnchecked(ps, x) ==
    IF FlagError(x) # None THEN DelKey(ps, "online_only")
    ELSE SetKey(DelKey(ps, "online_only"), "downloadable",
                [type |-> "bool", val |-> x = "True"])

\* downloadable: the inverse flag is removed, then the flag is set
DownloadableStore(ps, x) ==
    IF FlagError(x) # None THEN ps
    ELSE SetKey(DelKey(ps, "online_only"), "downloadable",
                [type |-> "bool", val |-> x = "True"])

\* GranuleCollectionBaseQuery.online_only
online_only(x) ==
    /\ kind \in CursorKinds
    /\ Built("online_only", FlagError(x), OnlineOnlyStore(params, x), options)

\* GranuleCollectionBaseQuery.downloadable
downloadable(x) ==
    /\ kind \in CursorKinds
    /\ Built("downloadable", FlagError(x), DownloadableStore(params, x), options)

\* one keyword argument of parameters(...): flag is the value of a flag
\* keyword, (lon, lat) the tuple of a point keyword
Kwarg(key, flag, lon, lat) == [key |-> key, flag |-> flag, lon |-> lon, lat |-> lat]

KwargArgs ==
    {Kwarg(k, x, 0, 0) : k \in {"online_only", "downloadable"}, x \in FlagArgs}
    \cup {Kwarg("point", "", c[1], c[2]) : c \in PointCalls}
    \cup {Kwarg("fake", "", 0, 0)}

\* the keyword lists parameters is called with: one keyword, or two
\* different ones
ParametersArgs ==
    {<<a>> : a \in KwargArgs}
    \cup {kw \in KwargArgs \X KwargArgs : kw[1].key # kw[2].key}

\* the methods dict of parameters: the builder methods of the class
Methods(k) ==
    IF k \in CursorKinds THEN {"online_only", "downloadable", "point"} ELSE {}

\* methods[key](val) or methods[key](*val): the exception of the call
KwargError(k, kw) ==
    IF kw.key \notin Methods(k) THEN "ValueError"
    ELSE IF kw.key \in {"online_only", "downloadable"} THEN FlagError(kw.flag)
    ELSE None

\* the store after methods[key](val)
KwargStore(ps, kw) ==
    CASE kw.key = "online_only" -> OnlineOnlyStore(ps, kw.flag)
      [] kw.key = "downloadable" -> DownloadableStore(ps, kw.flag)
      [] kw.key = "point" -> PointStore(ps, kw.lon, kw.lat)
      [] OTHER -> ps

\* the loop of parameters over kwargs.items(): the first exception ends it,
\* the keywords before it have been applied
RECURSIVE ParametersError(_, _)
ParametersError(k, kwargs) ==
    IF kwargs = <<>> THEN None
    ELSE IF KwargError(k, Head(kwargs)) # None THEN KwargError(k, Head(kwargs))
    ELSE ParametersError(k, Tail(kwargs))

ParametersStoreLastOnly(k, ps, kwargs) ==
    IF kwargs = <<>> \/ KwargError(k, kwargs[Len(kwargs)]) # None THEN ps
    ELSE KwargStore(ps, kwargs[Len(kwargs)])

RECURSIVE ParametersStore(_, _, _)
ParametersStore(k, ps, kwargs) ==
    IF kwargs = <<>> \/ KwargError(k, Head(kwargs)) # None THEN ps
    ELSE ParametersStore(k, KwargStore(ps, Head(kwargs)), Tail(kwargs))

\* Query.parameters
parameters(kwargs) ==
    Built("parameters", ParametersError(kind, kwargs),
          ParametersStore(kind, params, kwargs), options)

\* the two flags and point, called directly and through parameters
FlagNext ==
    \/ \E x \in FlagArgs : online_only(x)
    \/ \E x \in FlagArgs : downloadable(x)
    \/ \E c \in PointCalls : point(c[1], c[2])
    \/ \E kwargs \in ParametersArgs : parameters(kwargs)
    \/ CallerResumes

FlagSpec == Init /\ [][FlagNext]_vars

\* self.concept_id_chars as the constructor of each class sets it
ConceptIdChars(k) ==
    CASE k = "granule" -> {"G", "C"}
      [] k = "collection" -> {"C"}
      [] k = "tool" -> {"T"}
      [] k = "service" -> {"S"}
      [] k = "variable" -> {"V"}

\* the arguments of concept_id: one string, or a list of strings;
\* identifiers are written a character at a time
ConceptIdArgs ==
    LET C1 == <<"C", "1">>
        G2 == <<"G", "2">>
        C3 == <<" ", "C", "3">>
        T4 == <<"T", "4">>
        S5 == <<"S", "5">>
        V6 == <<"V", "6">>
    IN {[single |-> TRUE, ids |-> <<id>>] : id \in {C1, G2, T4}}
       \cup {[single |-> FALSE, ids |-> ids] :
               ids \in {<<>>, <<C1>>, <<C3>>, <<G2>>, <<T4>>, <<S5>>, <<V6>>,
                        <<C1, G2>>, <<G2, C1>>, <<T4, T4>>, <<V6, C1>>}}

\* ID.strip() as far as its first character goes
RECURSIVE Strip(_)
Strip(id) ==
    IF id = <<>> THEN <<>>
    ELSE IF Head(id) \in {" ", "\t", "\n"} THEN Strip(Tail(id))
    ELSE id

ConceptIdErrorFirstOnly(k, IDs) ==
    IF IDs = <<>> THEN None
    ELSE IF Strip(IDs[1]) = <<>> THEN "IndexError"
    ELSE IF Strip(IDs[1])[1] \notin ConceptIdChars(k) THEN "ValueError"
    ELSE None

\* the loop over IDs: ID.strip()[0] must be one of concept_id_chars
RECURSIVE ConceptIdError(_, _)
ConceptIdError(k, IDs) ==
    IF IDs = <<>> THEN None
    ELSE IF Strip(Head(IDs)) = <<>> THEN "IndexError"
    ELSE IF Strip(Head(IDs))[1] \notin ConceptIdChars(k) THEN "ValueError"
    ELSE ConceptIdError(k, Tail(IDs))

\* the list of identifiers as the strings they are
IdStrings(IDs) == [i \in 1..Len(IDs) |-> JoinWith(IDs[i], "")]

\* Query.concept_id: a str becomes [str]; the list is stored as given
concept_id(arg) ==
    Built("concept_id", ConceptIdError(kind, arg.ids),
          IF ConceptIdError(kind, arg.ids) # None THEN params
          ELSE SetKey(params, "concept_id",
                      [type |-> "list", val |-> IdStrings(arg.ids)]),
          options)

\* a date argument of temporal, in October 2016: None, an ISO 8601 string
\* with its time ("str") or without ("strdate"), a date object, a datetime
\* with its UTC offset in hours (0 for a naive one), or an unparsable string
DateArg(k, day, h, m, sec, tz) ==
    [kind |-> k, day |-> day, h |-> h, m |-> m, sec |-> sec, tz |-> tz]

NoDate == DateArg("none", 0, 0, 0, 0, 0)

\* the calls of temporal: (date_from, date_to, exclude_boundary)
TemporalArgs ==
    { <<DateArg("str", 10, 1, 2, 3, 0), DateArg("strdate", 12, 0, 0, 0, 0), FALSE>>,
      <<DateArg("datetime", 10, 0, 2, 1, -3), NoDate, TRUE>>,
      <<NoDate, DateArg("date", 11, 0, 0, 0, 0), FALSE>>,
      <<DateArg("str", 12, 10, 55, 7, 0), DateArg("datetime", 12, 9, 0, 0, 0), FALSE>>,
      <<DateArg("bad", 0, 0, 0, 0, 0), NoDate, FALSE>> }

\* the default datetimes of the two bounds: 00:00:00 and 23:59:59
DefaultFrom == [h |-> 0, m |-> 0, sec |-> 0]

DefaultTo == [h |-> 23, m |-> 59, sec |-> 59]

\* the exception convert_to_string raises for the argument
ConvertError(date) == IF date.kind = "bad" THEN "ValueError" ELSE None

\* the UTC datetime convert_to_string arrives at, in seconds of the month;
\* -1 stands for no date
ConvertToSeconds(date, default) ==
    CASE date.kind \in {"none", "bad"} -> -1
      [] date.kind \in {"strdate", "date"} ->
            ((date.day * 24 + default.h) * 60 + default.m) * 60 + default.sec
      [] OTHER ->
            ((date.day * 24 + date.h - date.tz) * 60 + date.m) * 60 + date.sec

\* two digits
Pad2(n) == IF n < 10 THEN "0" \o ToString(n) ELSE ToString(n)

\* date.strftime("%Y-%m-%dT%H:%M:%SZ"), "" for no date
Strftime(seconds) ==
    IF seconds < 0 THEN ""
    ELSE "2016-10-" \o Pad2(seconds \div 86400) \o "T"
         \o Pad2((seconds % 86400) \div 3600) \o ":"
         \o Pad2((seconds % 3600) \div 60) \o ":" \o Pad2(seconds % 60) \o "Z"

\* the exception of temporal(date_from, date_to): a bound that cannot be
\* parsed, or both bounds there and date_from > date_to
TemporalError(date_from, date_to) ==
    IF ConvertError(date_from) # None THEN ConvertError(date_from)
    ELSE IF ConvertError(date_to) # None THEN ConvertError(date_to)
    ELSE IF /\ ConvertToSeconds(date_from, DefaultFrom) >= 0
            /\ ConvertToSeconds(date_to, DefaultTo) >= 0
            /\ ConvertToSeconds(date_from, DefaultFrom) > ConvertToSeconds(date_to, DefaultTo)
    THEN "ValueError"
    ELSE None

\* f"{date_from},{date_to}" of the two converted bounds
RangeString(date_from, date_to) ==
    Strftime(ConvertToSeconds(date_from, DefaultFrom)) \o ","
        \o Strftime(ConvertToSeconds(date_to, DefaultTo))

\* params["temporal"], [] when the key is not there
Ranges(ps) == IF HasKey(ps, "temporal") THEN GetKey(ps, "temporal").val ELSE <<>>

TemporalStoreReplacing(ps, date_from, date_to) ==
    SetKey(ps, "temporal",
           [type |-> "list", val |-> <<RangeString(date_from, date_to)>>])

\* the list is created if need be, and the range appended
TemporalStore(ps, date_from, date_to) ==
    SetKey(ps, "temporal",
           [type |-> "list",
            val |-> Append(Ranges(ps), RangeString(date_from, date_to))])

\* GranuleCollectionBaseQuery.temporal
temporal(date_from, date_to, exclude_boundary) ==
    /\ kind \in CursorKinds
    /\ Len(Ranges(params)) < MaxRanges
    /\ Built("temporal", TemporalError(date_from, date_to),
             IF TemporalError(date_from, date_to) # None THEN params
             ELSE TemporalStore(params, date_from, date_to),
             IF TemporalError(date_from, date_to) = None /\ exclude_boundary
             THEN SetKey(options, "temporal",
                         <<[key |-> "exclude_boundary", val |-> "True"]>>)
             ELSE options)

\* a bound of cloud_cover: a number, or the empty string
Cover(n) == [given |-> TRUE, n |-> n]

NoCover == [given |-> FALSE, n |-> 0]

\* the calls of cloud_cover: (min_cover, max_cover)
CloudCoverArgs ==
    { <<Cover(-70), Cover(120)>>, <<NoCover, Cover(120)>>, <<Cover(50), NoCover>>,
      <<NoCover, NoCover>>, <<Cover(0), Cover(100)>>, <<Cover(50), Cover(0)>>,
      <<Cover(100), Cover(50)>>, <<Cover(0), Cover(0)>> }

\* bool(cover): neither the empty string nor zero
Truthy(cover) == cover.given /\ cover.n # 0

\* f"{cover}"
CoverString(cover) == IF cover.given THEN ToString(cover.n) ELSE ""

\* the checks of cloud_cover: at least one truthy bound; the two are
\* compared when both are truthy
CloudCoverError(min_cover, max_cover) ==
    IF ~Truthy(min_cover) /\ ~Truthy(max_cover) THEN "ValueError"
    ELSE IF Truthy(min_cover) /\ Truthy(max_cover) /\ min_cover.n > max_cover.n
    THEN "ValueError"
    ELSE None

\* GranuleQuery.cloud_cover
cloud_cover(min_cover, max_cover) ==
    /\ kind = "granule"
    /\ Built("cloud_cover", CloudCoverError(min_cover, max_cover),
             IF CloudCoverError(min_cover, max_cover) # None THEN params
             ELSE SetKey(params, "cloud_cover",
                         [type |-> "str",
                          val |-> CoverString(min_cover) \o "," \o CoverString(max_cover)]),
             options)

\* the filters that validate their arguments
FilterNext ==
    \/ \E arg \in ConceptIdArgs : concept_id(arg)
    \/ \E a \in TemporalArgs : temporal(a[1], a[2], a[3])
    \/ \E c \in CloudCoverArgs : cloud_cover(c[1], c[2])
    \/ CallerResumes

FilterSpec == Init /\ [][FilterNext]_vars

\* the tokens format is called with
FormatCalls ==
    FormatArgs \cup {<<"j", "s", "o", "n", "n">>,
                     <<"i", "s", "o", "1", "9", "1", "1", "6">>,
                     <<"d", "i", "f">>,
                     <<"o", "p", "e", "n", "d", "a", "t", "a">>,
                     <<"u", "m", "m", "_", "j", "s", "o", "n", "_", "v", "1", "_", "9">>}

\* another query object of class k is constructed in the same process: its
\* __init__ extends the list that all classes share
construct(k) ==
    /\ pc = "idle"
    /\ Len(valid_formats_regex) + Len(FormatsExtension(k))
         <= Len(BaseFormats) + (MaxQueries + 1) * Len(FormatsExtension("collection"))
    /\ valid_formats_regex' = valid_formats_regex \o FormatsExtension(k)
    /\ UNCHANGED <<kind, params, options, format, headers, locals, cvars>>

\* format calls on one query while other queries are constructed
FormatNext ==
    \/ \E t \in FormatCalls : set_format(t)
    \/ \E k \in Kinds : construct(k)
    \/ CallerResumes

FormatSpec == Init /\ [][FormatNext]_vars

\* ------------------------------------------- the other checked builders

\* a string argument, a character at a time, and the argument None
StrArg(chars) == [isstr |-> TRUE, chars |-> chars]

PyNone == [isstr |-> FALSE, chars |-> <<>>]

UpperCase ==
    <<"A", "B", "C", "D", "E", "F", "G", "H", "I", "J", "K", "L", "M",
      "N", "O", "P", "Q", "R", "S", "T", "U", "V", "W", "X", "Y", "Z">>

LowerCase ==
    <<"a", "b", "c", "d", "e", "f", "g", "h", "i", "j", "k", "l", "m",
      "n", "o", "p", "q", "r", "s", "t", "u", "v", "w", "x", "y", "z">>

\* str.lower()
Lower(chars) ==
    [i \in 1..Len(chars) |->
        IF \E j \in 1..26 : UpperCase[j] = chars[i]
        THEN LowerCase[CHOOSE j \in 1..26 : UpperCase[j] = chars[i]]
        ELSE chars[i]]

\* the arguments of day_night_flag
DayNightArgs ==
    {StrArg(<<"d", "a", "y">>), StrArg(<<"N", "i", "g", "h", "t">>),
     StrArg(<<"d", "u", "s", "k">>), PyNone}

\* the checks of day_night_flag: a str, and one of the three words
DayNightError(arg) ==
    IF ~arg.isstr THEN "TypeError"
    ELSE IF Lower(arg.chars) \notin {<<"d", "a", "y">>, <<"n", "i", "g", "h", "t">>,
                                     <<"u", "n", "s", "p", "e", "c", "i", "f", "i", "e", "d">>}
    THEN "ValueError"
    ELSE None

\* GranuleQuery.day_night_flag
day_night_flag(arg) ==
    /\ kind = "granule"
    /\ Built("day_night_flag", DayNightError(arg),
             IF DayNightError(arg) # None THEN params
             ELSE SetKey(params, "day_night_flag",
                         [type |-> "str", val |-> JoinWith(Lower(arg.chars), "")]),
             options)

\* valid_sort_keys of GranuleQuery.sort_key
ValidSortKeys ==
    { <<"c", "a", "m", "p", "a", "i", "g", "n">>,
      <<"e", "n", "t", "r", "y", "_", "t", "i", "t", "l", "e">>,
      <<"d", "a", "t", "a", "s", "e", "t", "_", "i", "d">>,
      <<"d", "a", "t", "a", "_", "s", "i", "z", "e">>,
      <<"e", "n", "d", "_", "d", "a", "t", "e">>,
      <<"g", "r", "a", "n", "u", "l", "e", "_", "u", "r">>,
      <<"p", "r", "o", "d", "u", "c", "e", "r", "_", "g", "r", "a", "n", "u", "l", "e", "_", "i", "d">>,
      <<"p", "r", "o", "j", "e", "c", "t">>,
      <<"p", "r", "o", "v", "i", "d", "e", "r">>,
      <<"r", "e", "a", "d", "a", "b", "l", "e", "_", "g", "r", "a", "n", "u", "l", "e", "_", "n", "a", "m", "e">>,
      <<"s", "h", "o", "r", "t", "_", "n", "a", "m", "e">>,
      <<"s", "t", "a", "r", "t", "_", "d", "a", "t", "e">>,
      <<"v", "e", "r", "s", "i", "o", "n">>,
      <<"p", "l", "a", "t", "f", "o", "r", "m">>,
      <<"i", "n", "s", "t", "r", "u", "m", "e", "n", "t">>,
      <<"s", "e", "n", "s", "o", "r">>,
      <<"d", "a", "y", "_", "n", "i", "g", "h", "t", "_", "f", "l", "a", "g">>,
      <<"o", "n", "l", "i", "n", "e", "_", "o", "n", "l", "y">>,
      <<"b", "r", "o", "w", "s", "a", "b", "l", "e">>,
      <<"b", "r", "o", "w", "s", "e", "_", "o", "n", "l", "y">>,
      <<"c", "l", "o", "u", "d", "_", "c", "o", "v", "e", "r">>,
      <<"r", "e", "v", "i", "s", "i", "o", "n", "_", "d", "a", "t", "e">> }

\* str.lstrip('-')
RECURSIVE LStripDash(_)
LStripDash(chars) ==
    IF chars # <<>> /\ Head(chars) = "-" THEN LStripDash(Tail(chars)) ELSE chars

\* the arguments of sort_key
SortKeyArgs ==
    {StrArg(<<"-", "s", "t", "a", "r", "t", "_", "d", "a", "t", "e">>),
     StrArg(<<"s", "e", "n", "s", "o", "r">>),
     StrArg(<<"s", "i", "z", "e">>), StrArg(<<>>), PyNone}

\* the check of sort_key
SortKeyError(arg) ==
    IF ~arg.isstr \/ LStripDash(arg.chars) \notin ValidSortKeys
    THEN "ValueError" ELSE None

\* GranuleQuery.sort_key
sort_key(arg) ==
    /\ kind = "granule"
    /\ Built("sort_key", SortKeyError(arg),
             IF SortKeyError(arg) # None THEN params
             ELSE SetKey(params, "sort_key",
                         [type |-> "str", val |-> JoinWith(arg.chars, "")]),
             options)

\* the arguments of instrument, platform and granule_ur
NameArgs == {StrArg(<<"1", "B">>), StrArg(<<>>), PyNone}

\* "if not value: raise ValueError"
EmptyError(arg) == IF ~arg.isstr \/ arg.chars = <<>> THEN "ValueError" ELSE None

\* the store of the three: the value under the key
NameStore(ps, key, arg) ==
    IF EmptyError(arg) # None THEN ps
    ELSE SetKey(ps, key, [type |-> "str", val |-> JoinWith(arg.chars, "")])

\* GranuleQuery.instrument
instrument(arg) ==
    /\ kind = "granule"
    /\ Built("instrument", EmptyError(arg), NameStore(params, "instrument", arg), options)

\* GranuleQuery.platform
platform(arg) ==
    /\ kind = "granule"
    /\ Built("platform", EmptyError(arg), NameStore(params, "platform", arg), options)

\* GranuleQuery.granule_ur
granule_ur(arg) ==
    /\ kind = "granule"
    /\ Built("granule_ur", EmptyError(arg), NameStore(params, "granule_ur", arg), options)

\* the loop over IDs of tool_concept_id and service_concept_id:
\* ID.strip()[0] must be the letter
RECURSIVE PrefixError(_, _)
PrefixError(letter, IDs) ==
    IF IDs = <<>> THEN None
    ELSE IF Strip(Head(IDs)) = <<>> THEN "IndexError"
    ELSE IF Strip(Head(IDs))[1] # letter THEN "ValueError"
    ELSE PrefixError(letter, Tail(IDs))

\* CollectionQuery.tool_concept_id
tool_concept_id(arg) ==
    /\ kind = "collection"
    /\ Built("tool_concept_id", PrefixError("T", arg.ids),
             IF PrefixError("T", arg.ids) # None THEN params
             ELSE SetKey(params, "tool_concept_id",
                         [type |-> "list", val |-> IdStrings(arg.ids)]),
             options)

\* CollectionQuery.service_concept_id
service_concept_id(arg) ==
    /\ kind = "collection"
    /\ Built("service_concept_id", PrefixError("S", arg.ids),
             IF PrefixError("S", arg.ids) # None THEN params
             ELSE SetKey(params, "service_concept_id",
                         [type |-> "list", val |-> IdStrings(arg.ids)]),
             options)

\* a call that stores under key is made on an empty store or on one that
\* holds the key; a call that raises (exc) is made on any store
Slot(key, exc) == exc # None \/ params = <<>> \/ HasKey(params, key)

\* calls with a coordinate that is no number
BadPointCalls == {<<BadValue, 151>>, <<100, BadValue>>}

BadBoxArgs == {<<10, 20, 30, BadValue>>}

\* every builder that checks its arguments, with arguments it accepts and
\* arguments it rejects
BuilderNext ==
    \/ \E x \in FlagArgs : Slot("online_only", FlagError(x)) /\ online_only(x)
    \/ \E x \in FlagArgs : Slot("downloadable", FlagError(x)) /\ downloadable(x)
    \/ \E arg \in DayNightArgs :
          Slot("day_night_flag", DayNightError(arg)) /\ day_night_flag(arg)
    \/ \E arg \in SortKeyArgs : Slot("sort_key", SortKeyError(arg)) /\ sort_key(arg)
    \/ \E a \in TemporalArgs :
          Slot("temporal", TemporalError(a[1], a[2])) /\ temporal(a[1], a[2], a[3])
    \/ \E c \in PointArgs \cup BadPointCalls :
          Slot("point", PointError(c[1], c[2])) /\ point(c[1], c[2])
    \/ \E coordinates \in PolygonArgs :
          Slot("polygon", PolygonError(coordinates)) /\ polygon(coordinates)
    \/ \E coordinates \in LineArgs :
          Slot("line", LineError(coordinates)) /\ line(coordinates)
    \/ \E box \in BoxArgs \cup BadBoxArgs :
          Slot("bounding_box", BoxError(box)) /\ bounding_box(box)
    \/ \E c \in CloudCoverArgs :
          Slot("cloud_cover", CloudCoverError(c[1], c[2])) /\ cloud_cover(c[1], c[2])
    \/ \E arg \in ConceptIdArgs :
          Slot("concept_id", ConceptIdError(kind, arg.ids)) /\ concept_id(arg)
    \/ \E arg \in ConceptIdArgs :
          Slot("tool_concept_id", PrefixError("T", arg.ids)) /\ tool_concept_id(arg)
    \/ \E arg \in ConceptIdArgs :
          Slot("service_concept_id", PrefixError("S", arg.ids)) /\ service_concept_id(arg)
    \/ \E arg \in NameArgs : Slot("instrument", EmptyError(arg)) /\ instrument(arg)
    \/ \E arg \in NameArgs : Slot("platform", EmptyError(arg)) /\ platform(arg)
    \/ \E arg \in NameArgs : Slot("granule_ur", EmptyError(arg)) /\ granule_ur(arg)
    \/ \E f \in FormatArgs : set_format(f)
    \/ \E t \in TokenArgs : token(t)
    \/ CallerResumes

BuilderSpec == Init /\ [][BuilderNext]_vars

\* ------------------------------------------------- overlapping get calls

\* the limits of the overlapping invocations: one, two, and MaxPages + 1
\* requests
CursorLimits == {1, PageMax + 1, MaxPages * PageMax + 1}

\* the records the server holds for the query
TotalRecords == (MaxPages + 2) * PageMax

\* the search-after token of a response: it names the position reached and
\* is unique to the series of requests it continues
Token(i, n) == "sa" \o ToString(i) \o "-" \o ToString(n)

\* the positions the server hands out tokens for: whole pages, and one
\* record more
Positions == {k * PageMax + d : k \in 0..(MaxPages + 2), d \in {0, 1}}

\* the position a token stands for; None is the start
Position(i, tok) ==
    IF tok = None THEN 0
    ELSE CHOOSE n \in Positions : \E j \in CallIds : Token(j, n) = tok

\* the server's answer to a request of invocation i for size records after
\* the token: the next records, and a token while the page is not empty
Serve(i, tok, size) ==
    LET start == Position(i, tok)
        n == Min(size, TotalRecords - start)
    IN [ok |-> TRUE, entries |-> Fresh(start + 1, n), text |-> "",
        search_after |-> IF n > 0 THEN Token(i, start + n) ELSE None,
        hits |-> None]

\* headers.get("cmr-search-after") of a request's headers
Cursor(hs) ==
    IF "cmr-search-after" \in DOMAIN hs THEN hs["cmr-search-after"] ELSE None

CursorHeadersShared(cs, i) == cs[1].headers

\* the local variable headers of invocation i
CursorHeaders(cs, i) == cs[i].headers

\* invocation i of get(l) starts: url = self._build_url();
\* headers = dict(self.headers or {})
concurrent_get(i, l) ==
    /\ pc = "idle"
    /\ kind \in CursorKinds
    /\ calls[i].pc = "idle"
    /\ BuildUrlError(kind, params, options) = None
    /\ calls' = [calls EXCEPT ![i] = [IdleFrame EXCEPT !.pc = "get", !.limit = l,
                                                       !.headers = headers]]
    /\ UNCHANGED <<qvars, locals, op, pc, requests, responses, outcome, retval, error>>

\* one iteration of the loop of invocation i
concurrent_GetPage(i) ==
    LET f == calls[i]
        sent == CursorHeaders(calls, i)
        size == PageSize(f.limit, f.n_results)
        resp == Serve(i, Cursor(sent), size)
        n == f.n_results + size
        rs == Extend(f.results, Latest(resp, format))
        hs == NextHeaders(sent, resp.search_after)
        g == [f EXCEPT !.sent = Append(@, Cursor(sent)),
                       !.received = Append(@, resp.search_after)]
    IN /\ pc = "idle"
       /\ f.pc = "get"
       /\ calls' = [calls EXCEPT ![i] =
                      IF MoreResults(n, f.limit, resp.search_after)
                      THEN [g EXCEPT !.n_results = n, !.results = rs, !.headers = hs]
                      ELSE [g EXCEPT !.pc = "done", !.retval = rs]]
       /\ headers' = SelfHeadersAfter(headers, hs)
       /\ UNCHANGED <<kind, valid_formats_regex, params, options, format, locals,
                      op, pc, requests, responses, outcome, retval, error>>

\* the caller of invocation i has its result
concurrent_return(i) ==
    /\ calls[i].pc = "done"
    /\ calls' = [calls EXCEPT ![i] = IdleFrame]
    /\ UNCHANGED <<qvars, locals, op, pc, requests, responses, outcome, retval, error>>

\* two get invocations on one query, interleaved request by request
CursorNext ==
    \/ \E t \in TokenArgs : token(t)
    \/ \E i \in CallIds, l \in CursorLimits : concurrent_get(i, l)
    \/ \E i \in CallIds : concurrent_GetPage(i)
    \/ \E i \in CallIds : concurrent_return(i)

CursorSpec == Init /\ [][CursorNext]_vars

\* the options a caller puts into the public options mapping:
\* (parameter, option key, value as a Python literal)
OptionArgs ==
    { <<"temporal", "exclude_boundary", "False">>,
      <<"short_name", "ignore_case", "True">>,
      <<"short_name", "ignore_case", "'yes'">> }

\* query.options[param] = {key: value}, by the caller
set_option(param, key, value) ==
    /\ pc = "idle"
    /\ options' = SetKey(options, param, <<[key |-> key, val |-> value]>>)
    /\ UNCHANGED <<kind, valid_formats_regex, params, format, headers, locals, cvars>>

\* the temporal calls with a bound missing
OpenRanges == {a \in TemporalArgs : a[1].kind = "none" \/ a[2].kind = "none"}

\* flags, scalar and list parameters and options, and the requests built
\* from them
UrlNext ==
    \/ \E x \in {"True", "False"} : Room("online_only") /\ online_only(x)
    \/ \E x \in {"True", "False"} : Room("downloadable") /\ downloadable(x)
    \/ \E n \in ShortNameArgs : Room("short_name") /\ short_name(n)
    \/ \E c \in PointArgs : Room("point") /\ point(c[1], c[2])
    \/ \E a \in OpenRanges : Room("temporal") /\ temporal(a[1], a[2], a[3])
    \/ \E o \in OptionArgs : set_option(o[1], o[2], o[3])
    \/ hits
    \/ HitsProbe
    \/ get(1)
    \/ GetPage
    \/ PageGetPage
    \/ CallerResumes

UrlSpec == Init /\ [][UrlNext]_vars

\* ------------------------------------------------- reading a call's record

\* the page requests of the call on record (get_all's first request is the
\* count probe) and the responses to them
GetRequests ==
    IF op = "get" THEN requests
    ELSE IF op = "get_all" /\ requests # <<>> THEN Tail(requests)
    ELSE <<>>

GetResponses ==
    IF op = "get" THEN responses
    ELSE IF op = "get_all" /\ responses # <<>> THEN Tail(responses)
    ELSE <<>>

\* the records asked for by the first k page requests
RECURSIVE Requested(_)
Requested(k) == IF k = 0 THEN 0 ELSE GetRequests[k].page_size + Requested(k - 1)

\* the list elements the first k page responses add to the result
RECURSIVE Received(_)
Received(k) ==
    IF k = 0 THEN <<>> ELSE Received(k - 1) \o Latest(GetResponses[k], format)

\* the records of the first k page responses
RecordsUpTo(k) == UNION {Records(GetResponses[i].entries) : i \in 1..k}

\* the cmr-search-after token a request carries (None: no such header)
SentToken(req) ==
    IF "cmr-search-after" \in DOMAIN req.headers
    THEN req.headers["cmr-search-after"] ELSE None

HasCursor(hs) == "cmr-search-after" \in DOMAIN hs

Returned == pc = "done" /\ outcome = "returned"

\* the query is one _build_url accepts, so that the call reaches the server
Buildable == BuildUrlError(kind, params, options) = None

CursorGet == op = "get" /\ kind \in CursorKinds /\ Buildable

\* the server of claim C1: every response is 2xx and carries exactly the
\* records asked for, none of them served before, and a cursor token while
\* fewer than limit records have been served
ExactServer ==
    \A i \in 1..Len(responses) :
        /\ responses[i].ok
        /\ Count(responses[i].entries) = requests[i].page_size
        /\ Distinct(responses[i].entries)
        /\ Records(responses[i].entries) \cap RecordsUpTo(i - 1) = {}
        /\ Requested(i) < limit => responses[i].search_after \notin {None, ""}

\* what claim C1 promises of a call
ExactPagination ==
    /\ \A i \in 1..Len(requests) :
          requests[i].page_size = Min(PageMax, limit - Requested(i - 1))
    /\ pc = "done" =>
          /\ outcome = "returned"
          /\ Count(retval) = limit
          /\ Distinct(retval)
          /\ Len(requests) = CeilDiv(limit, PageMax)

\* C1 as stated: a cursor-based JSON get(limit) against a server that
\* answers every request with exactly page_size new records and a token
\* while more remain returns exactly limit distinct records in exactly
\* ceil(limit/2000) requests, each of page_size min(2000, limit - requested).
C1_AsStated ==
    (CursorGet /\ format = "json" /\ ExactServer) => ExactPagination

\* C1 amended: the same for every limit >= 1 (get(0) still sends one request
\* of page_size 0, where ceil(0/2000) = 0).
C1_ExactPagination ==
    (CursorGet /\ format = "json" /\ limit >= 1 /\ ExactServer) => ExactPagination

\* get(3000) done: two requests, of 2000 and of 1000 records
C1_Witness ==
    /\ CursorGet /\ format = "json" /\ ExactServer /\ Returned
    /\ limit = PageMax + 1000
    /\ Len(requests) = 2
    /\ requests[1].page_size = PageMax
    /\ requests[2].page_size = 1000
    /\ Count(retval) = limit

\* C2 as stated: in a cursor-based get the first request carries no
\* cmr-search-after token (the query's headers holding none) and every later
\* request carries exactly the token of the response just before it.
C2_TokenChain ==
    kind \in CursorKinds =>
        /\ (GetRequests # <<>> /\ ~HasCursor(headers)) =>
              SentToken(GetRequests[1]) = None
        /\ \A i \in 2..Len(GetRequests) :
              SentToken(GetRequests[i]) = GetResponses[i - 1].search_after

\* C3: a cursor-based get sends no request after a response without a
\* cmr-search-after header, none once the requested total has reached limit,
\* and at most max(1, ceil(limit/2000)) requests; while the loop is running
\* it is below that number, so it ends within it (and within MaxRequests).
C3_Terminates ==
    kind \in CursorKinds =>
        /\ \A i \in 1..(Len(GetRequests) - 1) :
              /\ GetResponses[i].search_after # None
              /\ Requested(i) < limit
        /\ Len(GetRequests) <= Max(1, CeilDiv(limit, PageMax))
        /\ pc = "get" =>
              /\ Len(GetRequests) < Max(1, CeilDiv(limit, PageMax))
              /\ Len(requests) < MaxRequests
              /\ Requested(Len(GetRequests)) = n_results

\* a get(2 * 2000 + 1) that took three requests and one that the server
\* ended after its first page
C3_Witness ==
    /\ CursorGet /\ pc = "done"
    /\ \/ limit = 2 * PageMax + 1 /\ Len(requests) = 3
       \/ limit = 2 * PageMax + 1 /\ Len(requests) = 1 /\ outcome = "returned"

\* C4: no step of a retrieval call (get, get_all, hits, returning or raising)
\* changes the query's headers, the headers never hold a cmr-search-after
\* entry, and so the first page request of every get carries no token.
C4_HeadersKept ==
    /\ [](~HasCursor(headers))
    /\ [](GetRequests # <<>> => SentToken(GetRequests[1]) = None)
    /\ [][(pc # "idle" \/ pc' # "idle") => headers' = headers]_vars

\* a get on a query with an Authorization header has sent a received token
\* with its second request, and the query's headers hold only Authorization
C4_Witness ==
    /\ CursorGet /\ Returned
    /\ Len(requests) >= 2
    /\ SentToken(requests[2]) \notin {None, ""}
    /\ DOMAIN headers = {"Authorization"}

\* the hit count the probe of the get_all on record reported
Probed == PyInt(responses[1].hits)

\* every page response received while fewer records than limit had been
\* requested carried a cmr-search-after header
TokenWhileBelow ==
    \A i \in 1..Len(GetResponses) :
        Requested(i) < limit => GetResponses[i].search_after # None

\* get_all's first request is the count probe, and get runs with its answer
ProbeFirst ==
    (op = "get_all" /\ requests # <<>>) =>
        /\ requests[1].page_size = 0
        /\ requests[1].page_num = None
        /\ requests[1].headers = headers
        /\ (Len(requests) >= 2 \/ Returned) => limit = Probed

PagesSumToProbed ==
    /\ Requested(Len(GetRequests)) = Probed
    /\ Probed >= 1 => Len(requests) = 1 + CeilDiv(Probed, PageMax)

\* C5 as stated: get_all sends one count probe (page_size 0) first and then
\* behaves as get(hits): the page sizes after the probe sum to exactly the
\* probed count, in 1 + ceil(hits/2000) requests for hits >= 1.
C5_AsStated ==
    /\ ProbeFirst
    /\ (op = "get_all" /\ kind \in CursorKinds /\ Returned) => PagesSumToProbed

\* C5 amended: the sum and the number of requests are those of the claim
\* when every page response received while the requested total was below the
\* probed count carried a cursor token.
C5_ProbeThenGet ==
    /\ ProbeFirst
    /\ (op = "get_all" /\ kind \in CursorKinds /\ Returned /\ TokenWhileBelow)
          => PagesSumToProbed

\* get_all with 3000 hits: the probe, then pages of 2000 and 1000
C5_Witness ==
    /\ op = "get_all" /\ kind \in CursorKinds /\ Returned /\ TokenWhileBelow
    /\ Probed = PageMax + 1000
    /\ Len(requests) = 3
    /\ requests[2].page_size = PageMax
    /\ requests[3].page_size = 1000

\* C6: the k-th request of a page-number get carries page_num k and
\* page_size min(limit, 2000); a request follows only a non-empty page that
\* left the result below limit; with limit <= 0 there is no request.
C6_PageNumbers ==
    kind \in PageKinds =>
        /\ \A k \in 1..Len(GetRequests) :
              /\ GetRequests[k].page_num = k
              /\ GetRequests[k].page_size = Min(limit, PageMax)
        /\ \A k \in 1..(Len(GetRequests) - 1) :
              /\ Count(Latest(GetResponses[k], format)) > 0
              /\ Count(Received(k)) < limit
        /\ limit <= 0 => GetRequests = <<>>

\* a page-number get that returned after its third request
C6_Witness ==
    /\ kind \in PageKinds /\ op = "get" /\ Returned
    /\ Len(requests) = 3
    /\ requests[3].page_num = 3
    /\ limit > PageMax

\* C7 as stated: a page-number JSON get(limit), the server returning at most
\* page_size items per page, returns at most limit records (read for the
\* limits >= 0, a list having no fewer than 0 records).
C7_AtMostLimit ==
    ( /\ kind \in PageKinds /\ op = "get" /\ format = "json" /\ Returned
      /\ limit >= 0
      /\ \A i \in 1..Len(responses) :
            Count(responses[i].entries) <= requests[i].page_size )
    => Count(retval) <= limit

\* C8: a non-2xx response is the last thing the call receives: the call has
\* raised HTTPError, hands no result to the caller and sends nothing more.
C8_ErrorAborts ==
    \A i \in 1..Len(responses) :
        ~responses[i].ok =>
            /\ i = Len(responses)
            /\ Len(requests) = i
            /\ pc = "done"
            /\ outcome = "raised"
            /\ error = "HTTPError"
            /\ retval = None

\* a call that had fetched a page of records when its second request failed
C8_Witness ==
    /\ pc = "done" /\ outcome = "raised"
    /\ Len(responses) = 2
    /\ Count(responses[1].entries) > 0
    /\ ~responses[2].ok

\* the entry lists of the first k page responses, one after the other
RECURSIVE EntriesUpTo(_)
EntriesUpTo(k) ==
    IF k = 0 THEN <<>> ELSE EntriesUpTo(k - 1) \o GetResponses[k].entries

\* C9: with JSON the list get returns is the concatenation, in request
\* order, of the entry lists of the responses of the call.
C9_Concatenation ==
    (format = "json" /\ Returned /\ op \in {"get", "get_all"}) =>
        retval = EntriesUpTo(Len(GetResponses))

\* the server sent the same two records on two pages; both pages are kept
C9_Witness ==
    /\ format = "json" /\ Returned /\ op = "get"
    /\ Len(responses) >= 2
    /\ responses[1].entries = ShortPage
    /\ responses[2].entries = ShortPage
    /\ Count(retval) >= 4
    /\ ~Distinct(retval)

\* with a non-JSON format every page request adds one element
OnePerRequest ==
    /\ pc \in {"get", "page_get"} => Count(results) = Len(GetRequests)
    /\ Returned => Count(retval) = Len(GetRequests)

\* C10 as stated: with a non-JSON format the result has one element per
\* page request, and the number of page requests never exceeds limit, for
\* both protocols and every limit >= 0.
C10_AsStated ==
    (format # "json" /\ op = "get" /\ limit >= 0) =>
        /\ OnePerRequest
        /\ Len(requests) <= limit

\* C10 amended: the same, for every limit >= 1 with the cursor protocol
\* (get(0) sends one request) and every limit >= 0 with the page-number one.
C10_PagesWithinLimit ==
    (format # "json" /\ op = "get" /\ limit >= 0) =>
        /\ OnePerRequest
        /\ (kind \in PageKinds \/ limit >= 1) => Len(requests) <= limit

\* a non-JSON cursor get(2001) returned two raw bodies from two requests
C10_Witness ==
    /\ format # "json" /\ CursorGet /\ Returned
    /\ limit = PageMax + 1
    /\ Len(requests) = 2
    /\ Len(retval) = 2
    /\ retval[1].text \in Bodies

\* the one request of hits(): the URL get builds for the same store, the
\* query's own headers, page_size 0 and no page number
HitsRequest ==
    [url |-> BuildUrl(kind, params, options, format), headers |-> headers,
     page_size |-> 0, page_num |-> None]

\* C11: hits sends exactly one request, to the URL get would build for the
\* current parameter store and with page_size = 0; it returns the CMR-Hits
\* header as an integer, raises on a non-2xx response, and leaves params,
\* options, format and headers unchanged.
C11_Hits ==
    /\ [](op = "hits" =>
            /\ pc = "hits" => requests = <<>> /\ Buildable
            /\ (pc = "done" /\ Buildable) =>
                /\ requests = <<HitsRequest>>
                /\ IF responses[1].ok
                   THEN /\ outcome = "returned"
                        /\ retval \in Nat
                        /\ ToString(retval) = responses[1].hits
                   ELSE /\ outcome = "raised"
                        /\ error = "HTTPError"
                        /\ retval = None)
    /\ [][(op = "hits" \/ op' = "hits") =>
            UNCHANGED <<params, options, format, headers>>]_vars

\* hits() on a query with a token returned the 2001 the server reported
C11_Witness ==
    /\ op = "hits" /\ Returned
    /\ retval = PageMax + 1
    /\ "Authorization" \in DOMAIN headers
    /\ requests[1].page_size = 0

\* C12: the query offers results(page_size), which fetches a page only when
\* the consumer pulls an element beyond those fetched, sends no request for
\* later pages and leaves no cursor token in the query's headers: a call of
\* results is answered, not refused, and sends no more than the pages pulled.
C12_LazyResults ==
    (op = "results" /\ pc = "done") =>
        /\ outcome = "returned"
        /\ error # "AttributeError"
        /\ ~HasCursor(headers)

SpatialKeys == {"point", "circle", "polygon", "bounding_box", "line"}

CollectionKeys == {"short_name", "entry_title"}

\* the store holds a spatial filter and no collection filter
SpatialWithoutCollection(ps) ==
    /\ \E key \in SpatialKeys : HasKey(ps, key)
    /\ ~ \E key \in CollectionKeys : HasKey(ps, key)

\* C13: GranuleQuery._valid_state is false exactly when the store holds one
\* of point, circle, polygon, bounding_box, line and neither short_name nor
\* entry_title; the other four kinds are valid in every reachable state.
C13_ValidStateExact ==
    ValidState(kind, params) <=>
        ~ (kind = "granule" /\ SpatialWithoutCollection(params))

\* C14: the cross-field check is made when the request is built: a spatial
\* filter alone is accepted by its setter; a retrieval call on a granule
\* query with a spatial and no collection filter raises the state error
\* before any request is sent; with short_name or entry_title added, in
\* either order, the call does not raise it and the request is sent.
C14_CheckedAtBuild ==
    /\ (op \in SpatialKeys /\ pc = "done" /\ error = None) =>
            outcome = "returned" /\ requests = <<>>
    /\ (op \in {"get", "hits", "get_all"} /\ pc # "idle") =>
            IF kind = "granule" /\ SpatialWithoutCollection(params)
            THEN pc = "done" /\ error = "RuntimeError" /\ requests = <<>>
            ELSE error # "RuntimeError" /\ (pc = "done" => requests # <<>>)

\* the headers other than Authorization are the same after the step
OtherHeadersKept ==
    \A h \in DOMAIN headers \ {"Authorization"} :
        h \in DOMAIN headers' /\ headers'[h] = headers[h]

\* C15: after token(t) or bearer_token(b) with a non-empty argument,
\* headers['Authorization'] is the value of that call ('t' or 'Bearer b'),
\* and every other header of the map is still there with the same value.
C15_OtherHeadersKept ==
    [][\A t \in TokenArgs \ {""} :
          /\ token(t) => headers'["Authorization"] = t /\ OtherHeadersKept
          /\ bearer_token(t) =>
                headers'["Authorization"] = "Bearer " \o t /\ OtherHeadersKept]_vars

\* the store holds the flag named key and not the other one
OnlyFlag(ps, key, other) == HasKey(ps, key) /\ ~HasKey(ps, other)

\* the last keyword of the list that names one of the two flags, "" if none
RECURSIVE LastFlag(_)
LastFlag(kwargs) ==
    IF kwargs = <<>> THEN ""
    ELSE IF kwargs[Len(kwargs)].key \in {"online_only", "downloadable"}
    THEN kwargs[Len(kwargs)].key
    ELSE LastFlag(SubSeq(kwargs, 1, Len(kwargs) - 1))

\* C16: the store never holds both 'downloadable' and 'online_only': a
\* successful downloadable(x) leaves only downloadable and a successful
\* online_only(x) only online_only, with the value x, for either boolean and
\* after any interleaving, also when dispatched through parameters(...).
C16_FlagsExclusive ==
    /\ [](~ (HasKey(params, "downloadable") /\ HasKey(params, "online_only")))
    /\ []((pc = "done" /\ error = None /\ op = "online_only") =>
            OnlyFlag(params, "online_only", "downloadable"))
    /\ []((pc = "done" /\ error = None /\ op = "downloadable") =>
            OnlyFlag(params, "downloadable", "online_only"))
    /\ [][\A x \in {"True", "False"} :
            /\ online_only(x) => GetKey(params', "online_only").val = (x = "True")
            /\ downloadable(x) => GetKey(params', "downloadable").val = (x = "True")]_vars
    /\ [][\A kwargs \in ParametersArgs :
            (parameters(kwargs) /\ error' = None /\ LastFlag(kwargs) # "") =>
                OnlyFlag(params', LastFlag(kwargs),
                         IF LastFlag(kwargs) = "online_only"
                         THEN "downloadable" ELSE "online_only")]_vars

\* online_only(False) has returned and the store holds that flag alone
C16_Witness ==
    /\ pc = "done" /\ op = "online_only" /\ error = None
    /\ params = <<[key |-> "online_only", val |-> [type |-> "bool", val |-> FALSE]]>>

\* the points the store holds, as a list
Points(ps) ==
    IF ~HasKey(ps, "point") THEN <<>>
    ELSE IF GetKey(ps, "point").type = "list" THEN GetKey(ps, "point").val
    ELSE <<GetKey(ps, "point").val>>

\* params['point'] is a list, the one of before with '<lon>,<lat>' appended
PointAppended(lon, lat) ==
    /\ GetKey(params', "point").type = "list"
    /\ Points(params') = Append(Points(params), PointString(lon, lat))

\* C19: point calls accumulate: each successful point(lon, lat) appends
\* '<lon>,<lat>' to the list params['point'] (one call gives ['10.0,15.1'],
\* a second appends '20.4,10.2'), also through parameters(point=(lon, lat)).
C19_PointsAccumulate ==
    [][\A c \in PointCalls :
          /\ point(c[1], c[2]) => PointAppended(c[1], c[2])
          /\ parameters(<<Kwarg("point", "", c[1], c[2])>>) =>
                PointAppended(c[1], c[2])]_vars

\* the builder named by a keyword, called directly on a query of kind k with
\* store ps: the exception it raises and the store it leaves
C25_Call(k, ps, kw) ==
    CASE kw.key = "online_only" /\ k \in CursorKinds ->
            [error |-> FlagError(kw.flag), params |-> OnlineOnlyStore(ps, kw.flag)]
      [] kw.key = "downloadable" /\ k \in CursorKinds ->
            [error |-> FlagError(kw.flag), params |-> DownloadableStore(ps, kw.flag)]
      [] kw.key = "point" /\ k \in CursorKinds ->
            [error |-> None, params |-> PointStore(ps, kw.lon, kw.lat)]
      [] OTHER -> [error |-> "ValueError", params |-> ps]

\* the calls named by kwargs made one after the other, up to the first that
\* raises
RECURSIVE C25_InOrder(_, _, _)
C25_InOrder(k, ps, kwargs) ==
    IF kwargs = <<>> THEN [error |-> None, params |-> ps]
    ELSE IF C25_Call(k, ps, Head(kwargs)).error # None
         THEN C25_Call(k, ps, Head(kwargs))
         ELSE C25_InOrder(k, C25_Call(k, ps, Head(kwargs)).params, Tail(kwargs))

\* C25: parameters(**kwargs) leaves the query as the builder calls named by
\* the keywords leave it when made in keyword order, a tuple value unpacked
\* as positional arguments; a keyword that names no operation of the query
\* ends the call with ValueError. The direct calls are the ones of the
\* builder actions themselves.
C25_Parameters ==
    /\ [][\A kwargs \in ParametersArgs :
            parameters(kwargs) =>
                /\ params' = C25_InOrder(kind, params, kwargs).params
                /\ error' = C25_InOrder(kind, params, kwargs).error
                /\ options' = options /\ format' = format /\ headers' = headers
                /\ (kwargs[1].key \notin Methods(kind) =>
                        error' = "ValueError" /\ params' = params)]_vars
    /\ [][\A x \in FlagArgs :
            /\ online_only(x) =>
                  /\ params' = C25_Call(kind, params, Kwarg("online_only", x, 0, 0)).params
                  /\ error' = C25_Call(kind, params, Kwarg("online_only", x, 0, 0)).error
            /\ downloadable(x) =>
                  /\ params' = C25_Call(kind, params, Kwarg("downloadable", x, 0, 0)).params
                  /\ error' = C25_Call(kind, params, Kwarg("downloadable", x, 0, 0)).error]_vars
    /\ [][\A c \in PointCalls :
            point(c[1], c[2]) =>
                params' = C25_Call(kind, params, Kwarg("point", "", c[1], c[2])).params]_vars

\* parameters(downloadable=x, point=(lon, lat)) has returned: the store
\* holds the flag, then the point, and no online_only
C25_Witness ==
    /\ pc = "done" /\ op = "parameters" /\ error = None
    /\ HasKey(params, "downloadable") /\ HasKey(params, "point")
    /\ ~HasKey(params, "online_only")
    /\ Len(params) = 2 /\ params[1].key = "downloadable"

\* at least 4 pairs, the first equal to the last
C26_WellFormed(coordinates) ==
    /\ Len(coordinates) >= 4
    /\ coordinates[1] = coordinates[Len(coordinates)]

\* C26: polygon(coordinates) succeeds only for at least 4 pairs with the
\* first pair equal to the last, and then params['polygon'] is the flat
\* comma-joined float sequence; every other input, the empty sequence
\* included, ends with an error and leaves params unchanged.
C26_PolygonChecked ==
    [][\A coordinates \in PolygonArgs :
          polygon(coordinates) =>
              IF C26_WellFormed(coordinates)
              THEN /\ error' = None
                   /\ GetKey(params', "polygon").val =
                          JoinWith(AsStrs(coordinates), ",")
              ELSE /\ error' # None
                   /\ params' = params]_vars

\* the builders that check their arguments
C27_Builders ==
    {"online_only", "downloadable", "day_night_flag", "sort_key", "temporal",
     "point", "polygon", "line", "bounding_box", "cloud_cover", "concept_id",
     "tool_concept_id", "service_concept_id", "instrument", "platform",
     "granule_ur", "format"}

\* C27: a builder call that raises leaves the query as it was: neither
\* params nor options nor the format nor the headers change, for each of
\* the seventeen checked builders; online_only('Invalid Type') leaves
\* 'online_only' absent and an existing 'downloadable' in place.
C27_FailureChangesNothing ==
    /\ [][(pc = "idle" /\ pc' = "done" /\ op' \in C27_Builders /\ error' # None) =>
            /\ params' = params
            /\ options' = options
            /\ format' = format
            /\ headers' = headers]_vars
    /\ [][(online_only("'Invalid Type'") /\ HasKey(params, "downloadable")) =>
            /\ error' = "TypeError"
            /\ HasKey(params', "downloadable")
            /\ ~HasKey(params', "online_only")]_vars

\* online_only('Invalid Type') has raised on a query that holds downloadable
C27_Witness ==
    /\ pc = "done" /\ op = "online_only" /\ error = "TypeError"
    /\ HasKey(params, "downloadable") /\ ~HasKey(params, "online_only")

\* get(l) run alone from n_results = n with cursor tok and results rs: what
\* it returns
RECURSIVE C28_Alone(_, _, _, _, _)
C28_Alone(i, l, n, tok, rs) ==
    LET size == PageSize(l, n)
        resp == Serve(i, tok, size)
    IN IF MoreResults(n + size, l, resp.search_after)
       THEN C28_Alone(i, l, n + size, resp.search_after, Extend(rs, resp.entries))
       ELSE Extend(rs, resp.entries)

\* the tokens invocation i has sent are tokens it received itself: none
\* with its first request, then the one of the response before
C28_OwnTokens(i) ==
    \A k \in 1..Len(calls[i].sent) :
        calls[i].sent[k] = IF k = 1 THEN None ELSE calls[i].received[k - 1]

\* C28: the pagination cursor is private to one get invocation: when two
\* cursor-based get calls on one query are interleaved request by request,
\* each sends only tokens it received itself, no token of one call is sent
\* by the other or held in the query's headers, and each returns what it
\* returns when run alone against the same server.
C28_CursorPrivate ==
    /\ \A i \in CallIds : C28_OwnTokens(i)
    /\ \A i \in CallIds : \A j \in CallIds \ {i} :
          \A k \in 1..Len(calls[i].sent) : \A h \in 1..Len(calls[j].received) :
              calls[i].sent[k] = None \/ calls[i].sent[k] # calls[j].received[h]
    /\ "cmr-search-after" \notin DOMAIN headers
    /\ \A i \in CallIds :
          calls[i].pc = "done" =>
              calls[i].retval = C28_Alone(i, calls[i].limit, 0, None, <<>>)

\* invocation 1 has returned after MaxPages + 1 requests while invocation 2,
\* started on the same query with a token header, is between its requests
C28_Witness ==
    /\ calls[1].pc = "done" /\ Len(calls[1].sent) = MaxPages + 1
    /\ Records(calls[1].retval) = 1..(MaxPages * PageMax + 1)
    /\ calls[2].pc = "get" /\ Len(calls[2].sent) = 1
    /\ "Authorization" \in DOMAIN headers

\* C29: once token or bearer_token has set an Authorization header, every
\* request that get, hits and get_all issue afterwards carries it, for every
\* query kind and on every page of a retrieval.
C29_AuthorizationSent ==
    "Authorization" \in DOMAIN headers =>
        \A k \in 1..Len(requests) :
            /\ "Authorization" \in DOMAIN requests[k].headers
            /\ requests[k].headers["Authorization"] = headers["Authorization"]

\* options['temporal']['exclude_boundary'] is there and true
C30_Excluded(os) ==
    /\ HasKey(os, "temporal")
    /\ \E k \in 1..Len(GetKey(os, "temporal")) :
          /\ GetKey(os, "temporal")[k].key = "exclude_boundary"
          /\ GetKey(os, "temporal")[k].val = "True"

\* C30: options['temporal'] reflects the most recent temporal call: a
\* successful call with exclude_boundary=True leaves the option true, and a
\* later successful call with exclude_boundary=False leaves the query
\* without a true exclude_boundary option.
C30_LastCallDecides ==
    [][\A a \in TemporalArgs :
          (temporal(a[1], a[2], a[3]) /\ error' = None) =>
              (C30_Excluded(options') <=> a[3])]_vars

\* the prefix set of each query kind
C17_Prefixes ==
    [granule |-> {"G", "C"}, collection |-> {"C"}, tool |-> {"T"},
     service |-> {"S"}, variable |-> {"V"}]

\* the first non-whitespace character of every identifier is in the set
Conforming(IDs, prefixes) ==
    \A i \in 1..Len(IDs) :
        \E j \in 1..Len(IDs[i]) :
            /\ IDs[i][j] \in prefixes
            /\ \A h \in 1..(j - 1) : IDs[i][h] = " "

C18_Expected(a) ==
    CASE a[1].kind = "str" /\ a[2].kind = "strdate" ->
            <<"2016-10-10T01:02:03Z,2016-10-12T23:59:59Z">>
      [] a[1].kind = "datetime" /\ a[2].kind = "none" -> <<"2016-10-10T03:02:01Z,">>
      [] a[1].kind = "none" /\ a[2].kind = "date" -> <<",2016-10-11T23:59:59Z">>
      [] OTHER -> <<>>

\* C18: every successful temporal call appends one range string
\* '<from>,<to>' (a missing bound is the empty string, the comma stays) to
\* the list params['temporal'], so that after k successful calls the list
\* holds the k ranges in call order; no step replaces or removes a range,
\* and a call that fails (lower bound later than upper bound, unparsable
\* bound) adds nothing.
C18_TemporalAccumulates ==
    /\ [][\A a \in TemporalArgs :
            temporal(a[1], a[2], a[3]) =>
                /\ Ranges(params') = Ranges(params) \o C18_Expected(a)
                /\ (error' = None) <=> (C18_Expected(a) # <<>>)
                /\ error' # None => params' = params /\ error' = "ValueError"]_vars
    /\ [][(op' # "temporal" \/ pc' # "done") => Ranges(params') = Ranges(params)]_vars
    /\ [](HasKey(params, "temporal") => Len(Ranges(params)) >= 1)

\* a second temporal call has returned: both ranges are there, in call order
C18_Witness ==
    /\ op = "temporal" /\ pc = "done" /\ error = None
    /\ Ranges(params) = <<",2016-10-11T23:59:59Z", "2016-10-10T03:02:01Z,">>

\* C20: cloud_cover(min, max) with both bounds given as numbers succeeds
\* only if min <= max and then stores '<min>,<max>'; every call with
\* min > max fails and leaves params unchanged, also when one bound is 0
\* (min 50, max 0); a call with neither bound is an error.
C20_CloudCover ==
    [][\A c \in CloudCoverArgs :
          cloud_cover(c[1], c[2]) =>
              /\ (c[1].given /\ c[2].given /\ c[1].n > c[2].n) =>
                    error' = "ValueError" /\ params' = params
              /\ (c[1].given /\ c[2].given /\ error' = None) =>
                    GetKey(params', "cloud_cover").val
                        = ToString(c[1].n) \o "," \o ToString(c[2].n)
              /\ (~c[1].given /\ ~c[2].given) =>
                    error' = "ValueError" /\ params' = params]_vars

\* the tokens of FormatCalls that are formats of the kind: the empty token
\* (json), json and xml for every kind, and dif, opendata and umm_json_v1_9
\* for every kind but granule
C23_Allowed(k) ==
    {<<>>, <<"j", "s", "o", "n">>, <<"x", "m", "l">>}
    \cup (IF k = "granule" THEN {}
          ELSE {<<"d", "i", "f">>, <<"o", "p", "e", "n", "d", "a", "t", "a">>,
                <<"u", "m", "m", "_", "j", "s", "o", "n", "_", "v", "1", "_", "9">>})

\* C23: format(token) rejects every token that is not one of the kind's
\* formats: 'jsonn' and 'iso19116' raise ValueError just as 'invalid' does,
\* and a rejected call leaves the format unchanged.
C23_RejectsNonFormats ==
    [][\A t \in FormatCalls :
          (set_format(t) /\ t \notin C23_Allowed(kind)) =>
              outcome' = "raised" /\ error' = "ValueError" /\ format' = format]_vars

\* C24: what a query accepts is fixed by its kind: a granule query rejects
\* 'dif' and 'opendata' (and accepts 'json') in every state, whatever other
\* queries were constructed in the process.
C24_FormatsByKind ==
    kind = "granule" =>
        /\ FormatError(valid_formats_regex, <<"d", "i", "f">>) = "ValueError"
        /\ FormatError(valid_formats_regex, <<"o", "p", "e", "n", "d", "a", "t", "a">>) = "ValueError"
        /\ FormatError(valid_formats_regex, <<"j", "s", "o", "n">>) = None

\* the entries the claim gives one parameter: 'n[]=e' per element of a
\* list, 'n=true' or 'n=false' for a boolean, 'n=v' for a scalar
C21_Entries(p) ==
    IF p.val.type = "list"
    THEN [i \in 1..Len(p.val.val) |-> p.key \o "[]=" \o p.val.val[i]]
    ELSE IF p.val.type = "bool"
    THEN <<p.key \o "=" \o (IF p.val.val THEN "true" ELSE "false")>>
    ELSE <<p.key \o "=" \o p.val.val>>

\* the entries of the whole store, in insertion order
RECURSIVE C21_Serialized(_)
C21_Serialized(ps) ==
    IF ps = <<>> THEN <<>>
    ELSE C21_Entries(ps[1]) \o C21_Serialized(Tail(ps))

\* the request target of a query without options
C21_Target ==
    CMR_OPS \o Route(kind) \o "." \o format \o "?"
        \o JoinWith(C21_Serialized(params), "&")

\* C21: _build_url serializes the parameter store in insertion order: a
\* scalar as 'n=v', a list as one 'n[]=e' per element in list order, a
\* boolean as lowercase 'true'/'false'; so the target of a request built
\* from the flags never holds 'True' or 'False' (one store is spelled out).
C21_Serialization ==
    (pc = "done" /\ op \in {"get", "hits"} /\ requests # <<>>) =>
        /\ options = <<>> => requests[1].url = C21_Target
        /\ ( /\ kind = "granule" /\ options = <<>>
             /\ Len(params) = 2
             /\ params[1] = [key |-> "downloadable",
                             val |-> [type |-> "bool", val |-> FALSE]]
             /\ params[2].key = "temporal" /\ Len(params[2].val.val) = 2
             /\ params[2].val.val[1] = params[2].val.val[2]
             /\ params[2].val.val[1] = ",2016-10-11T23:59:59Z" ) =>
                requests[1].url =
                    "https://cmr.earthdata.nasa.gov/search/granules.json?downloadable=false&temporal[]=,2016-10-11T23:59:59Z&temporal[]=,2016-10-11T23:59:59Z"

\* hits() was answered for a granule query with downloadable false and
\* two ranges
C21_Witness ==
    /\ op = "hits" /\ Returned
    /\ requests[1].url =
          "https://cmr.earthdata.nasa.gov/search/granules.json?downloadable=false&temporal[]=,2016-10-11T23:59:59Z&temporal[]=,2016-10-11T23:59:59Z"

\* some option value is not a boolean
C22_NonBoolean ==
    \E i \in 1..Len(options) : \E j \in 1..Len(options[i].val) :
        options[i].val[j].val \notin {"True", "False"}

\* the options part of the request target: 'options[param][key]=true' or
\* '...=false' for each option, in order
RECURSIVE C22_Options(_)
C22_Options(os) ==
    IF os = <<>> THEN <<>>
    ELSE [j \in 1..Len(os[1].val) |->
            "options[" \o os[1].key \o "][" \o os[1].val[j].key \o "]="
                \o (IF os[1].val[j].val = "True" THEN "true" ELSE "false")]
         \o C22_Options(Tail(os))

\* the call has ended before a request was sent, by the exception exc
C22_FailedWith(exc) ==
    pc = "done" /\ outcome = "raised" /\ error = exc /\ requests = <<>>

\* the request carries the options after the parameters
C22_OptionsSent ==
    requests # <<>> =>
        requests[1].url =
            IF options = <<>> THEN C21_Target
            ELSE C21_Target \o "&" \o JoinWith(C22_Options(options), "&")

\* C22 as stated: if any option value is not a boolean, get and hits fail
\* with a type error before any HTTP request is sent; otherwise each option
\* is serialized as 'options[param][key]=true' or '...=false'.
C22_AsStated ==
    (op \in {"get", "hits"} /\ pc # "idle") =>
        IF C22_NonBoolean THEN C22_FailedWith("TypeError") ELSE C22_OptionsSent

\* C22 amended: the same for a query in a valid state; a granule query with
\* a spatial filter and no collection filter fails with the state error,
\* which _build_url raises first, and also before any request.
C22_OptionsBoolean ==
    (op \in {"get", "hits"} /\ pc # "idle") =>
        IF C22_NonBoolean
        THEN IF kind = "granule" /\ SpatialWithoutCollection(params)
             THEN C22_FailedWith("RuntimeError")
             ELSE C22_FailedWith("TypeError")
        ELSE C22_OptionsSent

\* hits() on a query with short_name and the option ignore_case='yes' has
\* raised TypeError
C22_Witness ==
    /\ op = "hits" /\ C22_FailedWith("TypeError")
    /\ HasKey(params, "short_name")
    /\ C22_NonBoolean

====
